---------------------------- MODULE Spec2Model ----------------------------
(***************************************************************************)
(* Model of the eiger-test file-diff utility: the rolling hash, the block  *)
(* index, the serial and the sectioned delta generators and the delta      *)
(* applier (src/main.go, src/unnamed/part_001, src/unnamed/part_002).      *)
(*                                                                         *)
(* Files are sequences of bytes.  The block size (1024 in the source) and  *)
(* the section size (10485760 = 10240 blocks in the source) are scaled     *)
(* down; the hash keeps the source's base and modulus.                     *)
(***************************************************************************)
EXTENDS Integers, Sequences, FiniteSets, TLC

VARIABLES
    rh,         \* the RollingHash struct: hash, window, first, baseN
    win,        \* the bytes the hash is meant to cover (the caller's window)
    hops,       \* number of RollingHash calls made so far
    rolls,      \* Roll calls since the last HashData; -1 when the calls made
                \* so far are not a HashData followed by Rolls only
    original,   \* content of the original file
    updated,    \* content of the updated file
    output,     \* content of the file at the output path
    fault,      \* the file operation of the generator that fails, if any
    pc,         \* where the caller (main) stands
    delta,      \* the command list handed to ApplyDelta
    genErr,     \* the error GenerateDelta returned
    applyIdx,   \* number of commands ApplyDelta has gone through
    applyErr,   \* the error ApplyDelta returned
    stale,      \* what the output path held when ApplyDelta was called
    loop,       \* the read loop of a serial generator: which generator runs,
                \* bytes read so far, position and currentWindow
    mpc,        \* where the goroutine running the sectioned GenerateDelta stands
    spawnI,     \* the loop variable i of its spawning loop
    wst,        \* per section worker: "none", "run", "send", "sent" or "done"
    wfault,     \* the workers whose open, seek or read of the updated file fails
    wdelta,     \* per worker: the sectionDelta processSection returned to it
    werr,       \* per worker: the error processSection returned to it
    deltaChan,  \* the buffer of the channel deltaChan
    closed,     \* deltaChan has been closed
    wg,         \* the counter of the WaitGroup
    closer,     \* the closing goroutine: "none", "waiting" or "done"
    deltas,     \* the slice the receive loop appends to
    result,     \* the list the sectioned GenerateDelta returned
    resultErr   \* the error the sectioned GenerateDelta returned

hvars == <<rh, win, hops, rolls>>
dvars == <<original, updated, output, fault, pc, delta, genErr, applyIdx, applyErr, stale,
           loop>>
pvars == <<mpc, spawnI, wst, wfault, wdelta, werr, deltaChan, closed, wg, closer,
           deltas, result, resultErr>>
vars == <<rh, win, hops, rolls,
          original, updated, output, fault, pc, delta, genErr, applyIdx, applyErr, stale, loop,
          mpc, spawnI, wst, wfault, wdelta, werr, deltaChan, closed, wg, closer,
          deltas, result, resultErr>>

-----------------------------------------------------------------------------
(* Bounds *)

\* largest window size given to New in the rolling-hash specification
MaxWindow == 5
\* number of RollingHash method calls explored after New
MaxHashOps == 3

\* byte values used for window contents
Bytes == {0, 1, 255}

\* blockSize: 1024 in the source, scaled down
blockSize == 2
\* number of blocks in a section: 10240 in the source, scaled down
SectionBlocks == 2
\* longest original and updated file
MaxOriginalLen == 4
MaxUpdatedLen == 5
\* byte values used for file contents
FileBytes == {0, 1}
\* longest command list handed to ApplyDelta by a caller
MaxCommands == 3
\* largest block index of a hand-made copy command
MaxBlockIndex == 2

-----------------------------------------------------------------------------
(* rollinghash: constants and arithmetic *)

Base == 256
ModPrime == 805306457

\* Go's % on int: the remainder takes the sign of the dividend
GoMod(a, m) == IF a >= 0 THEN a % m ELSE 0 - ((0 - a) % m)

\* (a * b) % m.  Go's int is 64 bits wide and every product of the source
\* stays below 2^38, so the source's a*b%m never overflows; the product is
\* formed here by doubling so that no intermediate value exceeds 2*m.
RECURSIVE MulMod(_, _, _)
MulMod(a, b, m) ==
    IF b = 0 THEN 0
    ELSE LET d == (2 * MulMod(a, b \div 2, m)) % m
         IN  IF b % 2 = 1 THEN (d + (a % m)) % m ELSE d

\* New: baseN = Base^(window-1) mod ModPrime, the loop of New
RECURSIVE BaseN(_)
BaseN(window) ==
    IF window - 1 <= 0 THEN 1
    ELSE MulMod(BaseN(window - 1), Base, ModPrime)

New(window) == [hash |-> 0, window |-> window, first |-> 0, baseN |-> BaseN(window)]

\* AddByte: rh.hash = (rh.hash*Base + int(b)) % ModPrime
AddByte(r, b) ==
    [r EXCEPT !.hash =
        IF r.hash >= 0
        THEN (MulMod(r.hash, Base, ModPrime) + b) % ModPrime
        ELSE 0 - ((MulMod(0 - r.hash, Base, ModPrime) - b) % ModPrime)]

\* the range loop of HashData over data[i..]
RECURSIVE HashDataFrom(_, _, _)
HashDataFrom(r, data, i) ==
    IF i > Len(data) THEN r
    ELSE HashDataFrom(AddByte(IF i = 1 THEN [r EXCEPT !.first = data[1]] ELSE r, data[i]),
                      data, i + 1)

\* a HashData that starts from the length of the data
HashDataLengthSeeded(r, data) == HashDataFrom([r EXCEPT !.hash = Len(data)], data, 1)

\* HashData: reset the hash, record the first byte, fold every byte
HashData(r, data) == HashDataFrom([r EXCEPT !.hash = 0], data, 1)

\* the value of RemoveByte before its final modulo
RemoveByteRaw(r) == r.hash + ModPrime - MulMod(r.first, r.baseN, ModPrime)

\* a RemoveByte that subtracts without adding ModPrime first
RemoveByteNoWrap(r, b) ==
    [r EXCEPT !.hash = GoMod(r.hash - MulMod(r.first, r.baseN, ModPrime), ModPrime),
              !.first = b]

\* RemoveByte: subtract first*baseN, then record b as the leading byte
RemoveByte(r, b) == [r EXCEPT !.hash = GoMod(RemoveByteRaw(r), ModPrime), !.first = b]

\* Roll: RemoveByte(oldByte) then AddByte(newByte)
Roll(r, oldByte, newByte) == AddByte(RemoveByte(r, oldByte), newByte)

GetHash(r) == r.hash

\* the from-scratch hash of a byte sequence: New(len) then HashData
HashOf(data) == GetHash(HashData(New(Len(data)), data))

-----------------------------------------------------------------------------
(* Byte sequences *)

SeqsOfLen(S, n) == [1..n -> S]
SeqsUpTo(S, n) == UNION {SeqsOfLen(S, k) : k \in 0..n}

Min(a, b) == IF a < b THEN a ELSE b
Max(a, b) == IF a > b THEN a ELSE b

-----------------------------------------------------------------------------
(* filediff: the block index *)

\* a read that returns nothing when fewer than to-from bytes are left
ReadAtFullOnly(file, from, to) ==
    IF from < 0 \/ to > Len(file) THEN <<>> ELSE SubSeq(file, from + 1, to)

\* bytes [from, to) of a file, cut at its end: what a read of to-from bytes
\* at offset from returns
ReadAt(file, from, to) ==
    IF from < 0 \/ from >= Len(file) THEN <<>>
    ELSE SubSeq(file, from + 1, Min(to, Len(file)))

\* the window hash of the generators: New(n), then AddByte over the window
RECURSIVE AddBytes(_, _, _)
AddBytes(r, data, i) ==
    IF i > Len(data) THEN r ELSE AddBytes(AddByte(r, data[i]), data, i + 1)

\* a window hash that leaves out the byte written last
WindowHashStale(window, n) ==
    GetHash(AddBytes(New(n), SubSeq(window, 1, Len(window) - 1), 1))

WindowHash(window, n) == GetHash(AddBytes(New(n), window, 1))

\* the read loop of hashFileBlocks from block number index on
RECURSIVE HashBlocksFrom(_, _, _)
HashBlocksFrom(hashes, file, index) ==
    LET buffer == ReadAt(file, index * blockSize, (index + 1) * blockSize)
        hash == GetHash(HashData(New(Len(buffer)), buffer))
        old == IF hash \in DOMAIN hashes THEN hashes[hash] ELSE <<>>
    IN  IF Len(buffer) = 0 THEN hashes
        ELSE HashBlocksFrom(
                 [h \in DOMAIN hashes \cup {hash} |->
                     IF h = hash THEN Append(old, index) ELSE hashes[h]],
                 file, index + 1)

\* s in reverse order
ReverseSeq(s) == [k \in 1..Len(s) |-> s[Len(s) + 1 - k]]

\* a block index whose lists hold the latest block first
hashFileBlocksLatestFirst(file) ==
    LET hashes == HashBlocksFrom(<<>>, file, 0)
    IN  [h \in DOMAIN hashes |-> ReverseSeq(hashes[h])]

\* hashFileBlocks: hash -> block indices of the file, in reading order
hashFileBlocks(file) == HashBlocksFrom(<<>>, file, 0)

-----------------------------------------------------------------------------
(* filediff: delta commands and the serial generator *)

CopyCommand(blockIndex, position) ==
    [Command |-> "copy", Position |-> position, BlockIndex |-> blockIndex, Data |-> <<>>]

InsertCommand(position, data) ==
    [Command |-> "insert", Position |-> position, BlockIndex |-> 0, Data |-> data]

\* a window that is never trimmed
PushWindowNoDiscard(window, b) == Append(window, b)

\* currentWindow after WriteByte(b) and the discard of the oldest byte
PushWindow(window, b) ==
    LET w == Append(window, b)
    IN  IF Len(w) > blockSize THEN Tail(w) ELSE w

\* the io.EOF branch of the serial loop without its insert
SerialEofDropsWindow(window, position, cmds) == cmds

\* the io.EOF branch of the serial loop: the bytes left in the window
\* become one insert at position - len
SerialEof(window, position, cmds) ==
    IF Len(window) > 0
    THEN Append(cmds, InsertCommand(position - Len(window), window))
    ELSE cmds

\* the read loop of the serial GenerateDelta: i bytes of updated are
\* consumed, window and position and delta are the loop's variables
RECURSIVE SerialLoop(_, _, _, _, _, _)
SerialLoop(originalHashes, updatedFile, i, window, position, cmds) ==
    IF i >= Len(updatedFile)
    THEN SerialEof(window, position, cmds)
    ELSE LET w == PushWindow(window, updatedFile[i + 1])
             hash == WindowHash(w, blockSize)
         IN  IF Len(w) = blockSize /\ hash \in DOMAIN originalHashes
             THEN SerialLoop(originalHashes, updatedFile, i + 1, <<>>, position + 1,
                      Append(cmds,
                             CopyCommand(originalHashes[hash][1], position + 1 - blockSize)))
             ELSE SerialLoop(originalHashes, updatedFile, i + 1, w, position + 1, cmds)

\* serial GenerateDelta when every file operation succeeds
GenerateDeltaSerial(originalFile, updatedFile) ==
    SerialLoop(hashFileBlocks(originalFile), updatedFile, 0, <<>>, 0, <<>>)

-----------------------------------------------------------------------------
(* filediff: the sectioned generator *)

sectionSize == SectionBlocks * blockSize

\* a deltaPosition that is not held at the start of the section
SectionCopyPositionUnclamped(position, start) == position + 1 - blockSize

\* deltaPosition of a copy in processSection: max(position+1-blockSize, start)
SectionCopyPosition(position, start) == Max(position + 1 - blockSize, start)

\* the read loop of processSection and what follows it; ReadByte reports
\* io.EOF at the end of the file
RECURSIVE SectionLoop(_, _, _, _, _, _, _)
SectionLoop(originalHashes, updatedFile, start, end, position, window, cmds) ==
    IF position >= end \/ position >= Len(updatedFile)
    THEN \* after the loop: the bytes left in the window become one insert
         IF Len(window) > 0
         THEN Append(cmds, InsertCommand(position - Len(window), window))
         ELSE cmds
    ELSE LET w == PushWindow(window, updatedFile[position + 1])
             hash == WindowHash(w, Min(blockSize, Len(w)))
         IN  IF Len(w) = blockSize \/ position = end - 1
             THEN IF hash \in DOMAIN originalHashes /\ Len(originalHashes[hash]) > 0
                  THEN SectionLoop(originalHashes, updatedFile, start, end, position + 1, <<>>,
                           Append(cmds, CopyCommand(originalHashes[hash][1],
                                                    SectionCopyPosition(position, start))))
                  ELSE IF position = end - 1
                  THEN SectionLoop(originalHashes, updatedFile, start, end, position + 1, <<>>,
                           Append(cmds, InsertCommand(position - Len(w) + 1, w)))
                  ELSE SectionLoop(originalHashes, updatedFile, start, end, position + 1, w, cmds)
             ELSE SectionLoop(originalHashes, updatedFile, start, end, position + 1, w, cmds)

\* currentWindow in processSection right after the byte at offset end-1 is
\* written to it, the loop having come to position with window: a full
\* window found in the index is reset, any other is kept
RECURSIVE SectionLastWindow(_, _, _, _, _)
SectionLastWindow(originalHashes, updatedFile, end, position, window) ==
    LET w == PushWindow(window, updatedFile[position + 1])
        hash == WindowHash(w, Min(blockSize, Len(w)))
    IN  IF position = end - 1 THEN w
        ELSE IF /\ Len(w) = blockSize
                /\ hash \in DOMAIN originalHashes
                /\ Len(originalHashes[hash]) > 0
        THEN SectionLastWindow(originalHashes, updatedFile, end, position + 1, <<>>)
        ELSE SectionLastWindow(originalHashes, updatedFile, end, position + 1, w)

\* processSection when its open, seek and reads succeed
processSection(originalHashes, updatedFile, start, end) ==
    SectionLoop(originalHashes, updatedFile, start, end, start, <<>>, <<>>)

\* numSections := int(fileSize) / sectionSize
NumSections(updatedFile) == Len(updatedFile) \div sectionSize

\* start and end of section i
SectionStart(i) == i * sectionSize
SectionEnd(updatedFile, i) == Min(SectionStart(i) + sectionSize, Len(updatedFile))

\* s without its element number i
RemoveAt(s, i) == SubSeq(s, 1, i - 1) \o SubSeq(s, i + 1, Len(s))

\* the orders sort.Slice may leave the commands in: ascending Position,
\* commands of equal Position in any order (the sort is not stable)
RECURSIVE SortedByPosition(_)
SortedByPosition(cmds) ==
    IF cmds = <<>> THEN {<<>>}
    ELSE LET least == {i \in 1..Len(cmds) :
                          \A j \in 1..Len(cmds) : cmds[i].Position <= cmds[j].Position}
         IN  UNION {{<<cmds[i]>> \o t : t \in SortedByPosition(RemoveAt(cmds, i))} : i \in least}

\* a GenerateDelta that returns the commands as received
Unsorted(cmds) == {cmds}

\* sort.Slice(deltas, Position <)
SortDeltas(cmds) == SortedByPosition(cmds)

-----------------------------------------------------------------------------
(* filediff: the applier *)

\* a write that cuts the file off after the bytes written
WriteAtTruncates(out, pos, data) ==
    IF Len(data) = 0 THEN out
    ELSE [i \in 1..(pos + Len(data)) |->
             IF i > pos THEN data[i - pos]
             ELSE IF i <= Len(out) THEN out[i]
             ELSE 0]

\* the output file after a Seek to pos and a Write of data: a write past
\* the end leaves a hole of zero bytes, a write of nothing changes nothing
WriteAt(out, pos, data) ==
    IF Len(data) = 0 THEN out
    ELSE [i \in 1..Max(Len(out), pos + Len(data)) |->
             IF i > pos /\ i <= pos + Len(data) THEN data[i - pos]
             ELSE IF i <= Len(out) THEN out[i]
             ELSE 0]

\* a Seek that reports no error
SeekNeverFails(offset) == FALSE

\* File.Seek(offset, io.SeekStart) returns an error for a negative offset
\* and none for an offset past the end of the file
SeekFails(offset) == offset < 0

\* a check of io.CopyN's error that does not let io.EOF through
CopyNErrorWithEof(copied) == IF Len(copied) < blockSize THEN "EOF" ELSE "nil"

\* the error ApplyDelta returns after io.CopyN copied these bytes: CopyN
\* reports io.EOF when the original ends early, which is let through
CopyNError(copied) == "nil"

\* case "copy"
ApplyCopy(originalFile, out, command) ==
    LET offset == command.BlockIndex * blockSize
        copied == ReadAt(originalFile, offset, offset + blockSize)
    IN  IF SeekFails(offset)
        THEN [out |-> out, err |-> "seek original"]
        ELSE IF SeekFails(command.Position)
        THEN [out |-> out, err |-> "seek output"]
        ELSE [out |-> WriteAt(out, command.Position, copied), err |-> CopyNError(copied)]

\* case "insert"
ApplyInsert(out, command) ==
    IF SeekFails(command.Position)
    THEN [out |-> out, err |-> "seek output"]
    ELSE [out |-> WriteAt(out, command.Position, command.Data), err |-> "nil"]

\* a switch without its default case
ApplyUnknownSkips(out, command) == [out |-> out, err |-> "nil"]

\* default: unknown command
ApplyUnknown(out, command) == [out |-> out, err |-> "unknown command"]

\* one iteration of ApplyDelta's loop: the output file and the error after
\* command
ApplyCommand(originalFile, out, command) ==
    IF command.Command = "copy" THEN ApplyCopy(originalFile, out, command)
    ELSE IF command.Command = "insert" THEN ApplyInsert(out, command)
    ELSE ApplyUnknown(out, command)

\* an open of the output file without os.O_TRUNC
OpenNoTrunc(out) == out

\* os.OpenFile(outputFilePath, O_CREATE|O_WRONLY|O_TRUNC): the file is empty
OpenTrunc(out) == <<>>

\* the loop of ApplyDelta from command number k on, out being the output so far
RECURSIVE ApplyFrom(_, _, _, _)
ApplyFrom(originalFile, deltaCommands, k, out) ==
    IF k > Len(deltaCommands) THEN [out |-> out, err |-> "nil"]
    ELSE LET r == ApplyCommand(originalFile, out, deltaCommands[k])
         IN  IF r.err # "nil" THEN r
             ELSE ApplyFrom(originalFile, deltaCommands, k + 1, r.out)

\* ApplyDelta: the output file is created or truncated, then every command
\* is applied in the order given
ApplyDelta(originalFile, deltaCommands) ==
    ApplyFrom(originalFile, deltaCommands, 1, OpenTrunc(<<>>))

-----------------------------------------------------------------------------
(* The caller: generate, then apply (main of part_002) *)

OriginalFiles == SeqsUpTo(FileBytes, MaxOriginalLen)
UpdatedFiles == SeqsUpTo(FileBytes, MaxUpdatedLen)
\* what the output path may hold beforehand: nothing, or an older file
StaleOutputs == {<<>>, <<1, 1, 1, 1, 1, 1, 1>>}
\* the file operations of the serial generator that can fail
SerialFaults == {"none", "hash original", "open updated", "read updated"}

\* no read loop is followed step by step
LoopIdle == [variant |-> "none", read |-> 0, position |-> 0, window |-> <<>>]

HashIdle == rh = New(blockSize) /\ win = <<>> /\ hops = 0 /\ rolls = -1

\* the sectioned generator is not running
ParIdle ==
    /\ mpc = "idle"
    /\ spawnI = 0
    /\ wst = <<>>
    /\ wfault = {}
    /\ wdelta = <<>>
    /\ werr = <<>>
    /\ deltaChan = <<>>
    /\ closed = FALSE
    /\ wg = 0
    /\ closer = "none"
    /\ deltas = <<>>
    /\ result = <<>>
    /\ resultErr = "nil"

Init ==
    /\ HashIdle
    /\ original \in OriginalFiles
    /\ updated \in UpdatedFiles
    /\ output \in StaleOutputs
    /\ fault \in SerialFaults
    /\ pc = "start"
    /\ delta = <<>>
    /\ genErr = "nil"
    /\ applyIdx = 0
    /\ applyErr = "nil"
    /\ stale = <<>>
    /\ loop = LoopIdle
    /\ ParIdle

\* delta, err := GenerateDelta(original, updated), the serial variant: any
\* failing file operation returns nil and the error
Generate ==
    /\ pc = "start"
    /\ IF fault = "none"
       THEN /\ delta' = GenerateDeltaSerial(original, updated)
            /\ genErr' = "nil"
            /\ pc' = "ready"
       ELSE /\ delta' = <<>>
            /\ genErr' = fault
            /\ pc' = "genFailed"
    /\ UNCHANGED <<original, updated, output, fault, applyIdx, applyErr, stale>>
    /\ UNCHANGED loop
    /\ UNCHANGED hvars
    /\ UNCHANGED pvars

\* ApplyDelta opens the original and creates or truncates the output file
ApplyOpen ==
    /\ pc = "ready"
    /\ output' = OpenTrunc(output)
    /\ stale' = output
    /\ applyIdx' = 0
    /\ pc' = "applying"
    /\ UNCHANGED <<original, updated, fault, delta, genErr, applyErr>>
    /\ UNCHANGED loop
    /\ UNCHANGED hvars
    /\ UNCHANGED pvars

\* one iteration of ApplyDelta's loop; an error returns at once
ApplyStep ==
    /\ pc = "applying"
    /\ applyIdx < Len(delta)
    /\ LET r == ApplyCommand(original, output, delta[applyIdx + 1])
       IN  /\ output' = r.out
           /\ applyErr' = r.err
           /\ applyIdx' = IF r.err = "nil" THEN applyIdx + 1 ELSE applyIdx
           /\ pc' = IF r.err = "nil" THEN "applying" ELSE "applyFailed"
    /\ UNCHANGED <<original, updated, fault, delta, genErr, stale>>
    /\ UNCHANGED loop
    /\ UNCHANGED hvars
    /\ UNCHANGED pvars

\* the loop is over: ApplyDelta returns nil
ApplyReturn ==
    /\ pc = "applying"
    /\ applyIdx = Len(delta)
    /\ pc' = "applied"
    /\ UNCHANGED <<original, updated, output, fault, delta, genErr, applyIdx, applyErr, stale>>
    /\ UNCHANGED loop
    /\ UNCHANGED hvars
    /\ UNCHANGED pvars

Next == Generate \/ ApplyOpen \/ ApplyStep \/ ApplyReturn

Spec == Init /\ [][Next]_vars

-----------------------------------------------------------------------------
(* Claims about the serial generator and the applier together *)

NumBlocks(file) == (Len(file) + blockSize - 1) \div blockSize
Block(file, i) == ReadAt(file, i * blockSize, (i + 1) * blockSize)
Windows(file) ==
    {SubSeq(file, s + 1, s + blockSize) : s \in 0..(Len(file) - blockSize)}

\* no window of upd has the hash of a block of orig of different content
NoWindowCollision(orig, upd) ==
    \A w \in Windows(upd) : \A i \in 0..(NumBlocks(orig) - 1) :
        WindowHash(w, blockSize) = HashOf(Block(orig, i)) => w = Block(orig, i)

\* no two blocks of orig of different content have the same hash
NoBlockCollision(orig) ==
    \A i, j \in 0..(NumBlocks(orig) - 1) :
        HashOf(Block(orig, i)) = HashOf(Block(orig, j)) => Block(orig, i) = Block(orig, j)

ApplyOver == pc \in {"applied", "applyFailed"}

\* C1: when no window of the updated file collides with an original block,
\* replaying serial GenerateDelta(O, U) against O succeeds and leaves an
\* output file equal to U, also when U has a run of more than blockSize
\* bytes that match no original block.
C1_RoundTrip ==
    (ApplyOver /\ NoWindowCollision(original, updated))
        => (pc = "applied" /\ output = updated)

\* C2: without two distinct blocks of one hash, replaying serial
\* GenerateDelta(O, O) against O succeeds and reconstructs O, whatever the
\* length of O.
C2_IdentityRoundTrip ==
    (ApplyOver /\ updated = original /\ NoBlockCollision(original))
        => (pc = "applied" /\ output = original)

\* the identity diff of a file with a short final block has been replayed
C2_Witness ==
    /\ pc = "applied"
    /\ updated = original
    /\ NoBlockCollision(original)
    /\ Len(original) = blockSize + 1
    /\ Len(delta) = 2
    /\ output = original

\* bytes [i*blockSize, min((i+1)*blockSize, L)) of file
BlockBytes(file, i) ==
    SubSeq(file, i * blockSize + 1, Min((i + 1) * blockSize, Len(file)))

\* the keys of index whose list holds i, each as many times as it holds i
Occurrences(index, i) ==
    {<<h, k>> \in UNION {{<<h, k>> : k \in 1..Len(index[h])} : h \in DOMAIN index} :
        index[h][k] = i}

\* C18: for an original of length L, hashFileBlocks returns a mapping in
\* which every block index 0..ceil(L/blockSize)-1 appears exactly once, in
\* the list keyed by the hash of that block's bytes; every list is in
\* strictly ascending order, no other index appears, and the mapping is
\* empty exactly when L = 0.
C18_BlockIndexContent ==
    pc = "ready" =>
        LET index == hashFileBlocks(original)
            blocks == 0..(NumBlocks(original) - 1)
        IN  /\ \A i \in blocks :
                  /\ Cardinality(Occurrences(index, i)) = 1
                  /\ \E k \in 1..Len(original) :
                        Occurrences(index, i) = {<<HashOf(BlockBytes(original, i)), k>>}
            /\ \A h \in DOMAIN index :
                  /\ Len(index[h]) > 0
                  /\ \A k \in 1..Len(index[h]) : index[h][k] \in blocks
                  /\ \A k \in 1..(Len(index[h]) - 1) : index[h][k] < index[h][k + 1]
            /\ (DOMAIN index = {}) <=> (Len(original) = 0)

\* the original of a generated delta ends with a short block whose hash is
\* also the hash of an earlier block: one list holds two indices
C18_Witness ==
    /\ pc = "ready"
    /\ Len(original) % blockSize # 0
    /\ NumBlocks(original) = 2
    /\ \E h \in DOMAIN hashFileBlocks(original) : hashFileBlocks(original)[h] = <<0, 1>>

-----------------------------------------------------------------------------
(* The read loop of the serial generators, one byte at a time *)

\* the three serial generators of the repository: generateDelta of
\* src/main.go, generateDelta of part_002 and GenerateDelta of part_001
LoopVariants == {"main.go", "part_002", "part_001"}

\* generateDelta of src/main.go leaves the iteration of a match by continue
ContinuesOnMatch(variant) == variant = "main.go"

\* the state before the first ReadByte.  The list of src/main.go holds the
\* commands as text; delta holds the fields that text is formatted from.
LoopInit ==
    /\ HashIdle
    /\ original \in OriginalFiles
    /\ updated \in UpdatedFiles
    /\ output = <<>>
    /\ fault = "none"
    /\ pc = "reading"
    /\ delta = <<>>
    /\ genErr = "nil"
    /\ applyIdx = 0
    /\ applyErr = "nil"
    /\ stale = <<>>
    /\ \E v \in LoopVariants :
          loop = [variant |-> v, read |-> 0, position |-> 0, window |-> <<>>]
    /\ ParIdle

\* one iteration of the loop: ReadByte returns a byte, it enters the
\* window, the oldest byte is discarded from a window grown past blockSize,
\* and a full window found in the index becomes a copy and is reset.
\* position++ ends the iteration, unless a continue left it before.
LoopReadByte ==
    /\ pc = "reading"
    /\ loop.read < Len(updated)
    /\ LET w == PushWindow(loop.window, updated[loop.read + 1])
           hash == WindowHash(w, blockSize)
           originalHashes == hashFileBlocks(original)
       IN  IF Len(w) = blockSize /\ hash \in DOMAIN originalHashes
           THEN /\ delta' = Append(delta, CopyCommand(originalHashes[hash][1],
                                                      loop.position + 1 - blockSize))
                /\ loop' = [loop EXCEPT !.read = @ + 1,
                                        !.window = <<>>,
                                        !.position = IF ContinuesOnMatch(loop.variant)
                                                     THEN @ ELSE @ + 1]
           ELSE /\ delta' = delta
                /\ loop' = [loop EXCEPT !.read = @ + 1, !.window = w, !.position = @ + 1]
    /\ UNCHANGED <<original, updated, output, fault, pc, genErr, applyIdx, applyErr, stale>>
    /\ UNCHANGED hvars
    /\ UNCHANGED pvars

\* ReadByte returns io.EOF: the bytes left in the window become one insert
\* and the loop is left
LoopEof ==
    /\ pc = "reading"
    /\ loop.read = Len(updated)
    /\ delta' = SerialEof(loop.window, loop.position, delta)
    /\ pc' = "generated"
    /\ UNCHANGED <<original, updated, output, fault, genErr, applyIdx, applyErr, stale, loop>>
    /\ UNCHANGED hvars
    /\ UNCHANGED pvars

LoopNext == LoopReadByte \/ LoopEof

SpecLoop == LoopInit /\ [][LoopNext]_vars

-----------------------------------------------------------------------------
(* Claims about the read loop of the serial generators *)

\* the loop of part_001 leaves the list GenerateDeltaSerial computes
LoopAgreesWithSerial ==
    (pc = "generated" /\ loop.variant # "main.go")
        => delta = GenerateDeltaSerial(original, updated)

\* C15: in every serial generator of the repository, after each byte is
\* processed, a byte that completes a match included, position equals the
\* number of bytes read so far.
C15_PositionTracksBytes ==
    pc \in {"reading", "generated"} => loop.position = loop.read

\* the numbers of the inserts of cmds
Inserts(cmds) == {k \in 1..Len(cmds) : cmds[k].Command = "insert"}

\* C16: the serial GenerateDelta emits an insert only at end of input: no
\* insert is in the list while bytes are read and the window never exceeds
\* blockSize; at end of input an empty window adds nothing, and a window
\* that is not empty adds one insert, the last and only one of the list,
\* whose data is the window and whose position is position minus the
\* window's length.
C16_InsertOnlyAtEnd ==
    loop.variant = "part_001" =>
        /\ Len(loop.window) <= blockSize
        /\ pc = "reading" => Inserts(delta) = {}
        /\ pc = "generated" =>
              /\ LoopAgreesWithSerial
              /\ IF Len(loop.window) = 0
                 THEN Inserts(delta) = {}
                 ELSE /\ Inserts(delta) = {Len(delta)}
                      /\ delta[Len(delta)]
                           = InsertCommand(loop.position - Len(loop.window), loop.window)

\* the serial GenerateDelta returned a copy followed by the insert of a
\* full window, bytes having been discarded from the window before
C16_Witness ==
    /\ loop.variant = "part_001"
    /\ pc = "generated"
    /\ Len(delta) = 2
    /\ delta[1].Command = "copy"
    /\ delta[2].Command = "insert"
    /\ Len(delta[2].Data) = blockSize
    /\ loop.read > 2 * blockSize
    /\ delta[2].Position = loop.read - blockSize

-----------------------------------------------------------------------------
(* The sectioned GenerateDelta and its goroutines *)

\* files of every length up to n: all ones, ones and zeros in turn, and a
\* zero followed by ones
PatternFiles(n) ==
    UNION {{[i \in 1..k |-> 1], [i \in 1..k |-> i % 2], [i \in 1..k |-> IF i = 1 THEN 0 ELSE 1]}
           : k \in 0..n}

\* originals of up to two blocks and a byte; updated files of up to two
\* sections and a byte, which three workers share
ParOriginals == PatternFiles(2 * blockSize + 1)
ParUpdated == PatternFiles(2 * sectionSize + 1)

\* the file operations GenerateDelta makes itself before it starts workers
ParFaults == {"none", "hash original", "open updated", "stat updated"}

Workers == 0..NumSections(updated)

ParInit ==
    /\ HashIdle
    /\ original \in ParOriginals
    /\ updated \in ParUpdated
    /\ output = <<>>
    /\ fault \in ParFaults
    /\ pc = "sectioned"
    /\ delta = <<>>
    /\ genErr = "nil"
    /\ applyIdx = 0
    /\ applyErr = "nil"
    /\ stale = <<>>
    /\ loop = LoopIdle
    /\ mpc = "start"
    /\ spawnI = 0
    /\ wst = [i \in Workers |-> "none"]
    /\ wfault \in {{}} \cup {{i} : i \in Workers}
    /\ wdelta = [i \in Workers |-> <<>>]
    /\ werr = [i \in Workers |-> "nil"]
    /\ deltaChan = <<>>
    /\ closed = FALSE
    /\ wg = 0
    /\ closer = "none"
    /\ deltas = <<>>
    /\ result = <<>>
    /\ resultErr = "nil"

\* hashFileBlocks, os.Open, Stat and make(chan, numSections); a failure
\* returns nil and the error
ParStart ==
    /\ mpc = "start"
    /\ IF fault = "none"
       THEN /\ mpc' = "spawn"
            /\ UNCHANGED <<result, resultErr>>
       ELSE /\ mpc' = "returned"
            /\ result' = <<>>
            /\ resultErr' = fault
    /\ UNCHANGED <<spawnI, wst, wfault, wdelta, werr, deltaChan, closed, wg, closer, deltas>>
    /\ UNCHANGED <<hvars, dvars>>

\* one iteration of the spawning loop: wg.Add(1) and go func(start, end)
Spawn ==
    /\ mpc = "spawn"
    /\ spawnI <= NumSections(updated)
    /\ wg' = wg + 1
    /\ wst' = [wst EXCEPT ![spawnI] = "run"]
    /\ spawnI' = spawnI + 1
    /\ UNCHANGED <<mpc, wfault, wdelta, werr, deltaChan, closed, closer, deltas, result, resultErr>>
    /\ UNCHANGED <<hvars, dvars>>

\* after the loop: go func() { wg.Wait(); close(deltaChan) }, then the
\* receive loop is entered
SpawnCloser ==
    /\ mpc = "spawn"
    /\ spawnI > NumSections(updated)
    /\ closer' = "waiting"
    /\ mpc' = "recv"
    /\ UNCHANGED <<spawnI, wst, wfault, wdelta, werr, deltaChan, closed, wg, deltas, result, resultErr>>
    /\ UNCHANGED <<hvars, dvars>>

\* worker i: sectionDelta, _ := processSection(...); a failing open, seek
\* or read makes processSection return nil and an error
WorkerRun(i) ==
    /\ wst[i] = "run"
    /\ IF i \in wfault
       THEN /\ wdelta' = [wdelta EXCEPT ![i] = <<>>]
            /\ werr' = [werr EXCEPT ![i] = "error reading section"]
       ELSE /\ wdelta' = [wdelta EXCEPT ![i] =
                              processSection(hashFileBlocks(original), updated,
                                             SectionStart(i), SectionEnd(updated, i))]
            /\ UNCHANGED werr
    /\ wst' = [wst EXCEPT ![i] = "send"]
    /\ UNCHANGED <<mpc, spawnI, wfault, deltaChan, closed, wg, closer, deltas, result, resultErr>>
    /\ UNCHANGED <<hvars, dvars>>

\* a send that completes only when the buffer has room
WorkerSendBufferOnly(i) ==
    /\ wst[i] = "send"
    /\ ~closed
    /\ Len(deltaChan) < NumSections(updated)
    /\ deltaChan' = Append(deltaChan, wdelta[i])
    /\ wst' = [wst EXCEPT ![i] = "sent"]
    /\ UNCHANGED <<mpc, spawnI, wfault, wdelta, werr, closed, wg, closer, deltas, result, resultErr>>
    /\ UNCHANGED <<hvars, dvars>>

\* worker i: deltaChan <- sectionDelta.  The send goes into the buffer
\* when it has room, or straight to the receive loop when that is waiting
\* on an empty buffer; otherwise the worker stays blocked.  A send on a
\* closed channel panics.
WorkerSend(i) ==
    /\ wst[i] = "send"
    /\ IF closed
       THEN /\ wst' = [wst EXCEPT ![i] = "panic"]
            /\ UNCHANGED <<deltaChan, deltas>>
       ELSE /\ wst' = [wst EXCEPT ![i] = "sent"]
            /\ \/ /\ Len(deltaChan) < NumSections(updated)
                  /\ deltaChan' = Append(deltaChan, wdelta[i])
                  /\ UNCHANGED deltas
               \/ /\ Len(deltaChan) = 0
                  /\ mpc = "recv"
                  /\ deltas' = deltas \o wdelta[i]
                  /\ UNCHANGED deltaChan
    /\ UNCHANGED <<mpc, spawnI, wfault, wdelta, werr, closed, wg, closer, result, resultErr>>
    /\ UNCHANGED <<hvars, dvars>>

\* worker i: the deferred wg.Done()
WorkerDone(i) ==
    /\ wst[i] = "sent"
    /\ wg' = wg - 1
    /\ wst' = [wst EXCEPT ![i] = "done"]
    /\ UNCHANGED <<mpc, spawnI, wfault, wdelta, werr, deltaChan, closed, closer, deltas, result, resultErr>>
    /\ UNCHANGED <<hvars, dvars>>

\* a closing goroutine that does not wait for the workers
CloserCloseNoWait ==
    /\ closer = "waiting"
    /\ closed' = TRUE
    /\ closer' = "done"
    /\ UNCHANGED <<mpc, spawnI, wst, wfault, wdelta, werr, deltaChan, wg, deltas, result, resultErr>>
    /\ UNCHANGED <<hvars, dvars>>

\* the closing goroutine: wg.Wait() returns at zero, then close(deltaChan)
CloserClose ==
    /\ closer = "waiting"
    /\ wg = 0
    /\ closed' = TRUE
    /\ closer' = "done"
    /\ UNCHANGED <<mpc, spawnI, wst, wfault, wdelta, werr, deltaChan, wg, deltas, result, resultErr>>
    /\ UNCHANGED <<hvars, dvars>>

\* the receive loop takes a list from the buffer and appends it
Receive ==
    /\ mpc = "recv"
    /\ Len(deltaChan) > 0
    /\ deltas' = deltas \o Head(deltaChan)
    /\ deltaChan' = Tail(deltaChan)
    /\ UNCHANGED <<mpc, spawnI, wst, wfault, wdelta, werr, closed, wg, closer, result, resultErr>>
    /\ UNCHANGED <<hvars, dvars>>

\* the channel is closed and drained: sort.Slice, then return deltas, nil
ParReturn ==
    /\ mpc = "recv"
    /\ Len(deltaChan) = 0
    /\ closed
    /\ result' \in SortDeltas(deltas)
    /\ resultErr' = "nil"
    /\ mpc' = "returned"
    /\ UNCHANGED <<spawnI, wst, wfault, wdelta, werr, deltaChan, closed, wg, closer, deltas>>
    /\ UNCHANGED <<hvars, dvars>>

ParNext ==
    \/ ParStart
    \/ Spawn
    \/ SpawnCloser
    \/ \E i \in Workers : WorkerRun(i)
    \/ \E i \in Workers : WorkerSend(i)
    \/ \E i \in Workers : WorkerDone(i)
    \/ CloserClose
    \/ Receive
    \/ ParReturn

SpecPar == ParInit /\ [][ParNext]_vars

\* the most sections an updated file of ParUpdated has
MaxSections == (2 * sectionSize + 1) \div sectionSize

\* the Go scheduler lets every goroutine that can take a step take it in
\* the end: GenerateDelta's own goroutine, the closer, and each worker at
\* its send and its Done; a worker's processSection returns, its file
\* reads being over at some time (for WorkerRun(i), which is enabled
\* exactly when worker i is at "run" and leaves "run", this is weak
\* fairness)
ParFairness ==
    /\ WF_vars(ParStart \/ Spawn \/ SpawnCloser \/ Receive \/ ParReturn)
    /\ WF_vars(CloserClose)
    /\ \A i \in 0..MaxSections :
          /\ []<>(~(i \in Workers /\ wst[i] = "run"))
          /\ WF_vars(i \in Workers /\ (WorkerSend(i) \/ WorkerDone(i)))

\* scheduling does not depend on what the files hold: one updated file of
\* every length up to two sections and a byte, an empty original and one
\* whose blocks are found in it
FairOriginals == {<<>>, [i \in 1..(2 * blockSize) |-> 1]}
FairUpdated == {[i \in 1..k |-> 1] : k \in 0..(2 * sectionSize + 1)}

ParFairInit ==
    /\ ParInit
    /\ original \in FairOriginals
    /\ updated \in FairUpdated

SpecParFair == ParFairInit /\ [][ParNext]_vars /\ ParFairness

-----------------------------------------------------------------------------
(* Claims about the sectioned generator *)

ParReturned == mpc = "returned"
NoFault == fault = "none" /\ wfault = {}

\* no run of 1..blockSize bytes of upd has the hash of a block of orig of
\* different content
NoHashCollision(orig, upd) ==
    \A n \in 1..blockSize : \A s \in 0..(Len(upd) - n) : \A i \in 0..(NumBlocks(orig) - 1) :
        LET w == SubSeq(upd, s + 1, s + n)
        IN  WindowHash(w, n) = HashOf(Block(orig, i)) => w = Block(orig, i)

\* C3: for every pair (O, U), replaying the merged and sorted list of the
\* sectioned GenerateDelta gives the same output file as replaying the
\* list of the serial GenerateDelta, also when a section ends with a window
\* shorter than blockSize.  Stated on the pairs free of hash collisions,
\* which the claim covers.
C3_ParallelEqualsSerial ==
    (ParReturned /\ NoFault /\ NoHashCollision(original, updated))
        => ApplyDelta(original, result) = ApplyDelta(original, GenerateDeltaSerial(original, updated))

\* C9: when hashing the original fails, or any open, seek or read of the
\* updated file fails (in GenerateDelta itself or in a section worker),
\* GenerateDelta returns an error and no command list.
C9_IOErrorsPropagate ==
    (ParReturned /\ ~NoFault) => (resultErr # "nil" /\ result = <<>>)

IsSortedByPosition(cmds) ==
    \A i, j \in 1..Len(cmds) : i < j => cmds[i].Position <= cmds[j].Position

\* C10: the list the sectioned GenerateDelta returns is in ascending order
\* of Position, for every file size, number of sections and completion
\* order of the workers.
C10_MergedListSorted ==
    (ParReturned /\ resultErr = "nil") => IsSortedByPosition(result)

\* three workers delivered, the lists arrived out of output order and the
\* returned list is sorted
C10_Witness ==
    /\ ParReturned
    /\ resultErr = "nil"
    /\ NumSections(updated) = 2
    /\ Len(result) >= 3
    /\ ~IsSortedByPosition(deltas)
    /\ IsSortedByPosition(result)

\* the number of times command c occurs in cmds
CountIn(cmds, c) == Cardinality({i \in 1..Len(cmds) : cmds[i] = c})

\* a and b hold the same commands the same number of times
IsPermutation(a, b) ==
    /\ Len(a) = Len(b)
    /\ \A i \in 1..Len(a) : CountIn(a, a[i]) = CountIn(b, a[i])

\* the lists of workers 0..n one after the other
RECURSIVE ConcatLists(_, _)
ConcatLists(lists, n) ==
    IF n < 0 THEN <<>> ELSE ConcatLists(lists, n - 1) \o lists[n]

\* C11: the sectioned GenerateDelta returns a list only after every one of
\* its numSections+1 workers has delivered its list and finished, and the
\* returned list is a permutation of the concatenation of all workers'
\* lists, in every interleaving.
C11_JoinBarrier ==
    (ParReturned /\ resultErr = "nil")
        => /\ \A i \in Workers : wst[i] = "done"
           /\ IsPermutation(result, ConcatLists(wdelta, NumSections(updated)))

\* three workers each delivered a list that is not empty, the last one
\* arrived first, and the returned list holds them all
C11_Witness ==
    /\ ParReturned
    /\ resultErr = "nil"
    /\ NumSections(updated) = 2
    /\ \A i \in Workers : wst[i] = "done" /\ Len(wdelta[i]) > 0
    /\ Len(deltas) > 0
    /\ deltas[1] = wdelta[2][1]
    /\ IsPermutation(result, ConcatLists(wdelta, 2))

\* cmds holds copies only, one for each block of file
OneCopyPerBlock(cmds, file) ==
    /\ \A k \in 1..Len(cmds) : cmds[k].Command = "copy"
    /\ Len(cmds) = NumBlocks(file)

\* C12: for every original O whose length is a multiple of blockSize,
\* GenerateDelta(O, O) returns copies only, one per block, and no insert,
\* in the serial variant and in the sectioned variant alike.
C12_IdentityDiffOnlyCopies ==
    (ParReturned /\ NoFault /\ updated = original /\ Len(original) % blockSize = 0)
        => /\ OneCopyPerBlock(result, original)
           /\ OneCopyPerBlock(GenerateDeltaSerial(original, updated), original)

\* the identity diff of a file of two different blocks, which two workers
\* shared, has been returned
C12_Witness ==
    /\ ParReturned
    /\ NoFault
    /\ updated = original
    /\ Len(original) = 2 * blockSize
    /\ Block(original, 0) # Block(original, 1)
    /\ NumSections(updated) >= 1
    /\ OneCopyPerBlock(result, original)
    /\ result[2].BlockIndex = 1

\* worker i has run processSection to its end on a section that is not
\* empty
WorkerRan(i) ==
    /\ fault = "none"
    /\ i \notin wfault
    /\ wst[i] \in {"send", "sent", "done"}
    /\ SectionStart(i) < SectionEnd(updated, i)

\* the window worker i holds at the last byte of its section
LastWindow(i) ==
    SectionLastWindow(hashFileBlocks(original), updated, SectionEnd(updated, i),
                      SectionStart(i), <<>>)

\* C14: a worker of the sectioned variant that reaches the last byte of its
\* section with a window of fewer than blockSize bytes emits those bytes as
\* one insert at the offset of the window's first byte, and never as a
\* copy.  Stated on the pairs free of hash collisions.
C14_SectionTailIsInsert ==
    \A i \in Workers :
        (WorkerRan(i) /\ NoHashCollision(original, updated) /\ Len(LastWindow(i)) < blockSize)
            => /\ Len(wdelta[i]) > 0
               /\ wdelta[i][Len(wdelta[i])]
                    = InsertCommand(SectionEnd(updated, i) - Len(LastWindow(i)), LastWindow(i))

\* block i is the first block of orig whose hash is h
IsFirstBlockWithHash(orig, i, h) ==
    /\ i \in 0..(NumBlocks(orig) - 1)
    /\ HashOf(Block(orig, i)) = h
    /\ \A j \in 0..(i - 1) : HashOf(Block(orig, j)) # h

\* the hashes of the windows a worker can hold in bytes [start, end) of upd:
\* runs of 1..blockSize bytes
SectionWindowHashes(upd, start, end) ==
    UNION {{WindowHash(SubSeq(upd, s + 1, s + n), Min(blockSize, n)) :
                n \in 1..Min(blockSize, end - s)} : s \in start..(end - 1)}

\* every copy of the serial list names the first block of orig that has the
\* hash of the window the copy stands for
SerialCopiesNameFirst(orig, upd, cmds) ==
    \A k \in 1..Len(cmds) :
        cmds[k].Command = "copy" =>
            IsFirstBlockWithHash(orig, cmds[k].BlockIndex,
                WindowHash(SubSeq(upd, cmds[k].Position + 1, cmds[k].Position + blockSize),
                           blockSize))

\* C17: every copy emitted by the serial generator or by a section worker
\* names the smallest block index of the original whose hash is the hash
\* of the window; hence 0 <= blockIndex < number of blocks of the original.
\* The workers' lists are looked at once GenerateDelta has returned.
C17_CopyNamesFirstBlock ==
    ParReturned =>
        /\ \A i \in DOMAIN wdelta : \A k \in 1..Len(wdelta[i]) :
              wdelta[i][k].Command = "copy" =>
                  \E h \in SectionWindowHashes(updated, SectionStart(i), SectionEnd(updated, i)) :
                      IsFirstBlockWithHash(original, wdelta[i][k].BlockIndex, h)
        /\ SerialCopiesNameFirst(original, updated, GenerateDeltaSerial(original, updated))

\* the original has two blocks of one hash and every window of the updated
\* file was matched: all the copies returned name block 0
C17_Witness ==
    /\ ParReturned
    /\ NoFault
    /\ NumBlocks(original) >= 2
    /\ HashOf(Block(original, 0)) = HashOf(Block(original, 1))
    /\ NumSections(updated) >= 1
    /\ Len(result) >= 3
    /\ \A k \in 1..Len(result) : result[k].Command = "copy" /\ result[k].BlockIndex = 0
    /\ Len(GenerateDeltaSerial(original, updated)) >= 2

\* C20: under fair scheduling the sectioned GenerateDelta returns in the
\* end for every size of the updated file, its numSections+1 workers
\* sending on a channel of capacity numSections; no worker stays blocked on
\* its send forever, and the channel is closed only after all the sends.
C20_SectionedTerminates ==
    /\ <>ParReturned
    /\ \A i \in 0..MaxSections :
          (i \in Workers /\ wst[i] = "send") ~> (i \in Workers /\ wst[i] \in {"sent", "done"})
    /\ [](closed => \A i \in Workers : wst[i] = "done")

\* GenerateDelta returned on a file of exactly two sections: three workers
\* sent on a channel of capacity two, the last of them with an empty list,
\* and the channel was closed after that
C20_Witness ==
    /\ ParReturned
    /\ resultErr = "nil"
    /\ Len(updated) = 2 * sectionSize
    /\ \A i \in Workers : wst[i] = "done"
    /\ wdelta[2] = <<>>
    /\ Len(result) > 0
    /\ closed

\* what the workers return for the pair (orig, upd) when no file operation
\* fails: a function of the two files alone
SectionLists(orig, upd) ==
    [i \in 0..NumSections(upd) |->
        processSection(hashFileBlocks(orig), upd, SectionStart(i), SectionEnd(upd, i))]

\* C21: for fixed (O, U) the sectioned GenerateDelta returns the same list
\* under every interleaving and completion order of its workers: the
\* workers' lists one after the other in the order of the sections.  Every
\* worker's command has its Position inside the worker's own section and
\* no two commands of the returned list have the same Position, so that
\* the sort has one possible result.
C21_ResultIndependentOfSchedule ==
    (ParReturned /\ NoFault)
        => /\ result = ConcatLists(SectionLists(original, updated), NumSections(updated))
           /\ \A i \in Workers : \A k \in 1..Len(wdelta[i]) :
                 /\ wdelta[i][k].Position >= SectionStart(i)
                 /\ wdelta[i][k].Position < SectionEnd(updated, i)
           /\ \A j, k \in 1..Len(result) : j # k => result[j].Position # result[k].Position

\* three workers ran, their lists were received in an order that is not
\* the order of the sections, one of them ends with a copy made for a
\* short window, and the list returned is the one in section order
C21_Witness ==
    /\ ParReturned
    /\ NoFault
    /\ NumSections(updated) = 2
    /\ Len(wdelta[0]) > 0
    /\ Len(wdelta[2]) > 0
    /\ wdelta[2][1].Command = "copy"
    /\ deltas # ConcatLists(wdelta, 2)
    /\ result = ConcatLists(SectionLists(original, updated), 2)

-----------------------------------------------------------------------------
(* ApplyDelta on command lists a caller made by hand *)

CommandPositions == {0, 2}
CommandData == {<<1>>, <<1, 0, 1>>}
Commands ==
    {CopyCommand(b, p) : b \in (-1)..MaxBlockIndex, p \in CommandPositions}
    \cup {InsertCommand(p, d) : p \in CommandPositions, d \in CommandData}
    \cup {[Command |-> "move", Position |-> 0, BlockIndex |-> 0, Data |-> <<>>]}

\* one original of every length up to a block and a byte
ApplyOriginals == {[i \in 1..n |-> i % 2] : n \in 0..(blockSize + 1)}

ApplyInit ==
    /\ HashIdle
    /\ original \in ApplyOriginals
    /\ updated = <<>>
    /\ output \in StaleOutputs
    /\ fault = "none"
    /\ pc = "ready"
    /\ delta \in SeqsUpTo(Commands, MaxCommands)
    /\ genErr = "nil"
    /\ applyIdx = 0
    /\ applyErr = "nil"
    /\ stale = <<>>
    /\ loop = LoopIdle
    /\ ParIdle

ApplyNext == ApplyOpen \/ ApplyStep \/ ApplyReturn

SpecApply == ApplyInit /\ [][ApplyNext]_vars

-----------------------------------------------------------------------------
(* Claims about the applier *)

\* the command ApplyDelta is about to apply
AtCommand == pc = "applying" /\ applyIdx < Len(delta)
Command == delta[applyIdx + 1]

NegativeCopy(c) == c.Command = "copy" /\ c.BlockIndex < 0

\* C6: when ApplyDelta reaches a copy whose blockIndex is negative it
\* returns an error and writes nothing for it.
C6_NegativeIndexFails ==
    [][(AtCommand /\ NegativeCopy(Command))
          => (applyErr' # "nil" /\ pc' = "applyFailed" /\ output' = output)]_vars

\* ApplyDelta failed on a negative block index after writing for an earlier
\* command
C6_Witness ==
    /\ pc = "applyFailed"
    /\ applyErr = "seek original"
    /\ applyIdx >= 1
    /\ NegativeCopy(delta[applyIdx + 1])
    /\ Len(output) > 0

OutOfRangeCopy(c) ==
    c.Command = "copy" /\ c.BlockIndex >= 0 /\ c.BlockIndex * blockSize >= Len(original)

\* C7: a copy whose blockIndex*blockSize is at or beyond the end of the
\* original returns no error, transfers nothing, leaves the output file as
\* it was, and ApplyDelta goes on with the next command.
C7_OutOfRangeCopyIsSilent ==
    [][(AtCommand /\ OutOfRangeCopy(Command))
          => /\ output' = output
             /\ applyErr' = "nil"
             /\ pc' = "applying"
             /\ applyIdx' = applyIdx + 1]_vars

\* ApplyDelta returned nil on a list whose second command is an out-of-range
\* copy, placed beyond the output written so far, followed by a command
\* that wrote
C7_Witness ==
    /\ pc = "applied"
    /\ Len(delta) = 3
    /\ OutOfRangeCopy(delta[2])
    /\ Len(original) > 0
    /\ delta[1].Command = "insert" /\ delta[1].Position = 0 /\ Len(delta[1].Data) = 1
    /\ delta[2].Position = 2
    /\ delta[3].Command = "copy" /\ delta[3].BlockIndex = 0 /\ delta[3].Position = 0
    /\ Len(output) = Min(blockSize, Len(original))

UnknownKind(c) == c.Command \notin {"copy", "insert"}

\* C8: a command that is neither copy nor insert makes ApplyDelta return an
\* error; the commands after it are not applied and the output file keeps
\* exactly the effects of the commands before it.
C8_UnknownKindIsFatal ==
    /\ [][(AtCommand /\ UnknownKind(Command))
            => (applyErr' = "unknown command" /\ pc' = "applyFailed"
                /\ output' = output /\ applyIdx' = applyIdx)]_vars
    /\ [][pc = "applyFailed" => (pc' = pc /\ output' = output /\ applyIdx' = applyIdx)]_vars
    /\ [](applyErr = "unknown command"
            => (/\ pc = "applyFailed"
                /\ UnknownKind(delta[applyIdx + 1])
                /\ ApplyDelta(original, SubSeq(delta, 1, applyIdx))
                     = [out |-> output, err |-> "nil"]))

\* ApplyDelta failed on an unknown command with one command applied before
\* it and one left after it
C8_Witness ==
    /\ pc = "applyFailed"
    /\ applyErr = "unknown command"
    /\ applyIdx = 1
    /\ Len(delta) = 3
    /\ Len(output) > 0
    /\ delta[3].Command = "insert"

\* a copy or an insert that ApplyDelta applies without error
ValidCommand(c) ==
    /\ c.Command \in {"copy", "insert"}
    /\ c.Position >= 0
    /\ c.Command = "copy" => c.BlockIndex >= 0

\* the bytes command c writes: its data, or what is left of its block
WrittenBytes(orig, c) ==
    IF c.Command = "insert" THEN c.Data
    ELSE SubSeq(orig, c.BlockIndex * blockSize + 1,
                Min((c.BlockIndex + 1) * blockSize, Len(orig)))

\* the offsets command c writes at
WrittenRange(orig, c) == c.Position..(c.Position + Len(WrittenBytes(orig, c)) - 1)

DisjointRanges(orig, cmds) ==
    \A i, j \in 1..Len(cmds) :
        i # j => WrittenRange(orig, cmds[i]) \cap WrittenRange(orig, cmds[j]) = {}

\* every order of the commands of cmds
Permuted(cmds) ==
    {[k \in 1..Len(cmds) |-> cmds[f[k]]] :
        f \in {g \in [1..Len(cmds) -> 1..Len(cmds)] :
                  \A a, b \in 1..Len(cmds) : a # b => g[a] # g[b]}}

\* C19: a list of valid copies and inserts whose written ranges are
\* pairwise disjoint is replayed to the same output file in every order of
\* its commands, and each command writes at [Position, Position + bytes
\* written) only: the bytes before and after are kept, a gap between the
\* old end of the file and Position reads as zeros.
C19_OrderIndependent ==
    /\ []((/\ pc = "applied"
            /\ \A k \in 1..Len(delta) : ValidCommand(delta[k])
            /\ DisjointRanges(original, delta))
              => \A p \in Permuted(delta) :
                     ApplyDelta(original, p) = [out |-> output, err |-> "nil"])
    /\ [][(AtCommand /\ ValidCommand(Command))
            => LET range == WrittenRange(original, Command)
               IN  /\ Len(output') =
                        IF range = {} THEN Len(output)
                        ELSE Max(Len(output), Command.Position + Cardinality(range))
                   /\ \A j \in 1..Len(output') :
                        output'[j] =
                            IF (j - 1) \in range
                            THEN WrittenBytes(original, Command)[j - Command.Position]
                            ELSE IF j <= Len(output) THEN output[j]
                            ELSE 0]_vars

\* three commands were replayed: an insert at 0, a copy of a whole block
\* beyond a gap, and a copy that writes nothing; the output is the insert,
\* a zero byte and the block
C19_Witness ==
    /\ pc = "applied"
    /\ Len(delta) = 3
    /\ \A k \in 1..3 : ValidCommand(delta[k])
    /\ DisjointRanges(original, delta)
    /\ delta[1].Command = "copy" /\ delta[1].Position = 2
    /\ Len(WrittenBytes(original, delta[1])) = blockSize
    /\ delta[2].Command = "insert" /\ delta[2].Position = 0 /\ Len(delta[2].Data) = 1
    /\ delta[3].Command = "copy" /\ WrittenRange(original, delta[3]) = {}
    /\ output = delta[2].Data \o <<0>> \o WrittenBytes(original, delta[1])

-----------------------------------------------------------------------------
(* Specification of the rolling hash alone *)

DiffIdle ==
    /\ original = <<>>
    /\ updated = <<>>
    /\ output = <<>>
    /\ fault = "none"
    /\ pc = "hash"
    /\ delta = <<>>
    /\ genErr = "nil"
    /\ applyIdx = 0
    /\ applyErr = "nil"
    /\ stale = <<>>
    /\ loop = LoopIdle
    /\ ParIdle

\* the state after New(w): nothing hashed yet
HashInit ==
    /\ \E w \in 1..MaxWindow : rh = New(w)
    /\ win = <<>>
    /\ hops = 0
    /\ rolls = -1
    /\ DiffIdle

\* rh.HashData(data) on a window of exactly rh.window bytes.  HashData
\* overwrites hash and first and leaves window and baseN alone, so what it
\* returns does not depend on the calls made before it: it is explored as
\* the first call after New.
DoHashData ==
    /\ hops = 0
    /\ \E data \in SeqsOfLen(Bytes, rh.window) :
          /\ rh' = HashData(rh, data)
          /\ win' = data
    /\ hops' = hops + 1
    /\ rolls' = 0
    /\ UNCHANGED dvars
    /\ UNCHANGED pvars

\* rh.Roll(oldByte, newByte), oldByte being the front byte of the window
DoRoll ==
    /\ hops < MaxHashOps
    /\ rolls >= 0
    /\ \E newByte \in Bytes :
          /\ rh' = Roll(rh, win[1], newByte)
          /\ win' = Append(Tail(win), newByte)
    /\ hops' = hops + 1
    /\ rolls' = rolls + 1
    /\ UNCHANGED dvars
    /\ UNCHANGED pvars

\* rh.AddByte(b) called on its own
DoAddByte ==
    /\ hops < MaxHashOps
    /\ \E b \in Bytes : rh' = AddByte(rh, b)
    /\ win' = <<>>
    /\ hops' = hops + 1
    /\ rolls' = -1
    /\ UNCHANGED dvars
    /\ UNCHANGED pvars

\* rh.RemoveByte(b) called on its own
DoRemoveByte ==
    /\ hops < MaxHashOps
    /\ \E b \in Bytes : rh' = RemoveByte(rh, b)
    /\ win' = <<>>
    /\ hops' = hops + 1
    /\ rolls' = -1
    /\ UNCHANGED dvars
    /\ UNCHANGED pvars

HashNext == DoHashData \/ DoRoll \/ DoAddByte \/ DoRemoveByte

SpecHash == HashInit /\ [][HashNext]_vars

-----------------------------------------------------------------------------
(* Claims about the rolling hash *)

\* C4: after New(len(W)), HashData(W) and one Roll(W[0], n), GetHash equals
\* the hash HashData computes from scratch on W[1:] followed by n.
C4_RollOnceEqualsRehash ==
    rolls = 1 => GetHash(rh) = HashOf(win)

\* a window of five bytes starting 255, 255 has been hashed and rolled once:
\* its hash is below first*baseN%ModPrime, so the subtraction needs the
\* added ModPrime
C4_Witness ==
    /\ rolls = 1
    /\ rh.window = 5
    /\ rh.first = 255
    /\ win[1] = 255
    /\ GetHash(rh) = HashOf(win)

\* C13: after HashData on a full window and any number k >= 1 of calls
\* Roll(oldByte, newByte), oldByte being the front byte of the window,
\* GetHash equals the from-scratch hash of the current window after every
\* roll, not only the first.
C13_RollsKeepHash ==
    rolls >= 1 => GetHash(rh) = HashOf(win)

\* C22: after New(w) and any sequence of HashData, AddByte, RemoveByte and
\* Roll calls, the hash and baseN are in [0, ModPrime), and the value
\* RemoveByte computes before its final modulo is not negative.
C22_HashStaysInRange ==
    /\ rh.hash >= 0 /\ rh.hash < ModPrime
    /\ rh.baseN >= 0 /\ rh.baseN < ModPrime
    /\ RemoveByteRaw(rh) >= 0

\* calls other than a HashData followed by rolls were made and the hash is
\* now below first*baseN%ModPrime: the next RemoveByte stays non-negative
\* by the ModPrime it adds
C22_Witness ==
    /\ hops >= 2
    /\ rolls = -1
    /\ rh.first = 255
    /\ rh.hash > 0
    /\ RemoveByteRaw(rh) < ModPrime
    /\ RemoveByteRaw(rh) >= 0

-----------------------------------------------------------------------------
(* The block hash and the length of the block *)

\* k zero bytes
RECURSIVE Zeros(_)
Zeros(k) == IF k <= 0 THEN <<>> ELSE Append(Zeros(k - 1), 0)

\* the last block of orig
FinalBlock(orig) == Block(orig, NumBlocks(orig) - 1)

\* the original ends with a block shorter than blockSize and the updated
\* file starts with that block behind the zero bytes that fill a window
ShortBlockBehindZeros ==
    /\ NumBlocks(original) >= 1
    /\ Len(FinalBlock(original)) < blockSize
    /\ Len(updated) >= blockSize
    /\ SubSeq(updated, 1, blockSize)
         = Zeros(blockSize - Len(FinalBlock(original))) \o FinalBlock(original)

\* the most zero bytes that fill a window before a block that is not empty
MaxZeros == blockSize - 1

\* hashing k zero bytes before S gives the hash of S, for the blocks of
\* the original and the leading runs of the updated file up to a block
ZerosLeaveHash ==
    \A k \in 0..MaxZeros :
        /\ \A i \in 0..(NumBlocks(original) - 1) :
              HashOf(Zeros(k) \o Block(original, i)) = HashOf(Block(original, i))
        /\ \A n \in 0..Min(blockSize, Len(updated)) :
              HashOf(Zeros(k) \o SubSeq(updated, 1, n)) = HashOf(SubSeq(updated, 1, n))

=============================================================================
